---- MODULE Spec2Model ----
(***************************************************************************)
(* Model of prime_factors.py: the module-level script reads one line,      *)
(* converts it with int(), calls prime_factors(num) and prints the result. *)
(* prime_factors is the trial-division loop of lines 1-12.                 *)
(***************************************************************************)
EXTENDS Integers, Sequences, FiniteSets

\* Longest input line considered.
MaxLen == 3

\* Characters an input line is drawn from: decimal digits, the signs, a blank,
\* the digit separator int() accepts, and a letter int() rejects.
Digits == {"0", "1", "2", "3", "4", "5", "6", "7", "8", "9"}

Alphabet == Digits \cup {"-", "+", " ", "_", "a"}

Texts == UNION {[1..k -> Alphabet] : k \in 0..MaxLen}

VARIABLES
  text,     \* the line returned by input()
  pc,       \* position of the single thread of control
  num,      \* module-level num (line 14); meaningful once pc # "input"
  n,        \* prime_factors: parameter n, the remaining value
  factors,  \* prime_factors: local factors
  divisor,  \* prime_factors: local divisor
  out       \* lines written to standard output by print

vars == <<text, pc, num, n, factors, divisor, out>>

----------------------------------------------------------------------------
\* int(text): surrounding whitespace is stripped, one optional sign, then
\* decimal digits in which single underscores may separate digits.

RECURSIVE LStrip(_)
LStrip(s) == IF s # <<>> /\ Head(s) = " " THEN LStrip(Tail(s)) ELSE s

RECURSIVE RStrip(_)
RStrip(s) ==
  IF s # <<>> /\ s[Len(s)] = " " THEN RStrip(SubSeq(s, 1, Len(s) - 1)) ELSE s

Strip(s) == RStrip(LStrip(s))

HasSign(s) == s # <<>> /\ Head(s) \in {"-", "+"}

Unsigned(s) == IF HasSign(s) THEN Tail(s) ELSE s

ValidDigits(b) ==
  /\ b # <<>>
  /\ \A i \in 1..Len(b) : b[i] \in Digits \cup {"_"}
  /\ b[1] # "_"
  /\ b[Len(b)] # "_"
  /\ \A i \in 1..(Len(b) - 1) : ~(b[i] = "_" /\ b[i + 1] = "_")

DigitVal(c) ==
  CASE c = "0" -> 0 [] c = "1" -> 1 [] c = "2" -> 2 [] c = "3" -> 3
    [] c = "4" -> 4 [] c = "5" -> 5 [] c = "6" -> 6 [] c = "7" -> 7
    [] c = "8" -> 8 [] c = "9" -> 9

RECURSIVE DigitsValue(_, _)
DigitsValue(b, acc) ==
  IF b = <<>> THEN acc
  ELSE IF Head(b) = "_" THEN DigitsValue(Tail(b), acc)
  ELSE DigitsValue(Tail(b), 10 * acc + DigitVal(Head(b)))

IsIntLiteral(s) == ValidDigits(Unsigned(Strip(s)))

IntOf(s) ==
  LET t == Strip(s)
      v == DigitsValue(Unsigned(t), 0)
  IN  IF Head(t) = "-" THEN 0 - v ELSE v

----------------------------------------------------------------------------
\* print(list): str() of a list of ints, as a sequence of characters.

DigitChar(d) ==
  CASE d = 0 -> "0" [] d = 1 -> "1" [] d = 2 -> "2" [] d = 3 -> "3"
    [] d = 4 -> "4" [] d = 5 -> "5" [] d = 6 -> "6" [] d = 7 -> "7"
    [] d = 8 -> "8" [] d = 9 -> "9"

RECURSIVE NatStr(_)
NatStr(i) ==
  IF i < 10 THEN <<DigitChar(i)>> ELSE NatStr(i \div 10) \o <<DigitChar(i % 10)>>

IntStr(i) == IF i < 0 THEN <<"-">> \o NatStr(0 - i) ELSE NatStr(i)

RECURSIVE Joined(_)
Joined(s) ==
  IF s = <<>> THEN <<>>
  ELSE IF Len(s) = 1 THEN IntStr(s[1])
  ELSE IntStr(Head(s)) \o <<",", " ">> \o Joined(Tail(s))

ListStr(s) == <<"[">> \o Joined(s) \o <<"]">>

----------------------------------------------------------------------------
\* The conditions of prime_factors.

\* Variant: the loop stops one candidate early, at the square itself.
WhileCond_Strict(d, m) == d * d < m

WhileCond(d, m) == d * d <= m

\* Variants of the test on line 10: accepting 1, accepting 0, accepting
\* everything but 1.
IfCond_Inclusive(m) == m >= 1

IfCond_NonNegative(m) == m >= 0

IfCond_NotOne(m) == m # 1

IfCond(m) == m > 1

----------------------------------------------------------------------------
Init ==
  /\ text \in Texts
  /\ pc = "input"
  /\ num = 0
  /\ n = 0
  /\ factors = <<>>
  /\ divisor = 0
  /\ out = <<>>

\* line 14, int() succeeds
ParseOk ==
  /\ pc = "input"
  /\ IsIntLiteral(text)
  /\ num' = IntOf(text)
  /\ pc' = "call"
  /\ UNCHANGED <<text, n, factors, divisor, out>>

\* Variant: the conversion error is swallowed and the script carries on.
ParseFail_Swallowed ==
  /\ pc = "input"
  /\ ~IsIntLiteral(text)
  /\ pc' = "call"
  /\ UNCHANGED <<text, num, n, factors, divisor, out>>

\* line 14, int() raises ValueError, which nothing catches
ParseFail ==
  /\ pc = "input"
  /\ ~IsIntLiteral(text)
  /\ pc' = "error"
  /\ UNCHANGED <<text, num, n, factors, divisor, out>>

\* Variant: the first candidate is 3.
Call_FromThree ==
  /\ pc = "call"
  /\ n' = num
  /\ factors' = <<>>
  /\ divisor' = 3
  /\ pc' = "while"
  /\ UNCHANGED <<text, num, out>>

\* line 15 enters prime_factors(num); lines 1-3
Call ==
  /\ pc = "call"
  /\ n' = num
  /\ factors' = <<>>
  /\ divisor' = 2
  /\ pc' = "while"
  /\ UNCHANGED <<text, num, out>>

\* Variant: the divisor found is not recorded.
LoopRecord_NoAppend ==
  /\ pc = "while"
  /\ WhileCond(divisor, n)
  /\ n % divisor = 0
  /\ n' = n \div divisor
  /\ UNCHANGED <<text, pc, num, factors, divisor, out>>

\* Variant: the candidate is advanced after a division as well.
LoopRecord_Advancing ==
  /\ pc = "while"
  /\ WhileCond(divisor, n)
  /\ n % divisor = 0
  /\ factors' = Append(factors, divisor)
  /\ n' = n \div divisor
  /\ divisor' = divisor + 1
  /\ UNCHANGED <<text, pc, num, out>>

\* lines 4-7
LoopRecord ==
  /\ pc = "while"
  /\ WhileCond(divisor, n)
  /\ n % divisor = 0
  /\ factors' = Append(factors, divisor)
  /\ n' = n \div divisor
  /\ UNCHANGED <<text, pc, num, divisor, out>>

\* Variant: the candidate is not advanced.
LoopAdvance_Stuck ==
  /\ pc = "while"
  /\ WhileCond(divisor, n)
  /\ n % divisor # 0
  /\ UNCHANGED <<text, pc, num, n, factors, divisor, out>>

\* lines 4-5, 8-9
LoopAdvance ==
  /\ pc = "while"
  /\ WhileCond(divisor, n)
  /\ n % divisor # 0
  /\ divisor' = divisor + 1
  /\ UNCHANGED <<text, pc, num, n, factors, out>>

\* line 4, condition false
LoopExit ==
  /\ pc = "while"
  /\ ~WhileCond(divisor, n)
  /\ pc' = "if"
  /\ UNCHANGED <<text, num, n, factors, divisor, out>>

\* Variant: the remaining value is put in front.
AppendRest_Prepend ==
  /\ pc = "if"
  /\ IfCond(n)
  /\ factors' = <<n>> \o factors
  /\ pc' = "return"
  /\ UNCHANGED <<text, num, n, divisor, out>>

\* lines 10-11
AppendRest ==
  /\ pc = "if"
  /\ IfCond(n)
  /\ factors' = Append(factors, n)
  /\ pc' = "return"
  /\ UNCHANGED <<text, num, n, divisor, out>>

\* line 10, condition false
SkipRest ==
  /\ pc = "if"
  /\ ~IfCond(n)
  /\ pc' = "return"
  /\ UNCHANGED <<text, num, n, factors, divisor, out>>

\* line 12: the list goes back to the caller on line 15
Return ==
  /\ pc = "return"
  /\ pc' = "print"
  /\ UNCHANGED <<text, num, n, factors, divisor, out>>

\* line 15, print; the script then ends
PrintFactors ==
  /\ pc = "print"
  /\ out' = Append(out, ListStr(factors))
  /\ pc' = "exit"
  /\ UNCHANGED <<text, num, n, factors, divisor>>

Next ==
  \/ ParseOk
  \/ ParseFail
  \/ Call
  \/ LoopRecord
  \/ LoopAdvance
  \/ LoopExit
  \/ AppendRest
  \/ SkipRest
  \/ Return
  \/ PrintFactors

Spec == Init /\ [][Next]_vars

\* The interpreter runs the single thread until the script ends.
FairSpec == Spec /\ WF_vars(Next)

----------------------------------------------------------------------------
\* Arithmetic the properties are stated in.

RECURSIVE Product(_)
Product(s) == IF s = <<>> THEN 1 ELSE Head(s) * Product(Tail(s))

IsPrime(p) == p >= 2 /\ \A d \in 2..(p - 1) : p % d # 0

NonDecreasing(s) == \A i \in 1..(Len(s) - 1) : s[i] <= s[i + 1]

Occurrences(p, s) == Cardinality({i \in 1..Len(s) : s[i] = p})

RECURSIVE Multiplicity(_, _)
Multiplicity(p, m) == IF m % p = 0 THEN 1 + Multiplicity(p, m \div p) ELSE 0

RECURSIVE Repeat(_, _)
Repeat(p, k) == IF k = 0 THEN <<>> ELSE <<p>> \o Repeat(p, k - 1)

PrimeDivisors(m) == {p \in 2..m : m % p = 0 /\ IsPrime(p)}

Least(S) == CHOOSE p \in S : \A q \in S : p <= q

\* The primes in S ascending, each as often as it divides m.
RECURSIVE PrimePowers(_, _)
PrimePowers(S, m) ==
  IF S = {} THEN <<>>
  ELSE Repeat(Least(S), Multiplicity(Least(S), m))
         \o PrimePowers(S \ {Least(S)}, m)

ReferenceFactors(m) == PrimePowers(PrimeDivisors(m), m)

InFunction == pc \in {"while", "if", "return"}

Returned == pc \in {"return", "print", "exit"}

\* C1: for n > 1 the product of the returned sequence is the original n.
C1_ProductIsN == (pc = "return" /\ num > 1) => Product(factors) = num

C1_Witness == pc = "return" /\ num = 12 /\ factors = <<2, 2, 3>>

\* C2: for n > 1 every element of the returned sequence is prime, the
\* remaining value appended after the loop included.
C2_AllPrime ==
  (pc = "return" /\ num > 1) => \A i \in 1..Len(factors) : IsPrime(factors[i])

C2_Witness ==
  /\ pc = "return"
  /\ num = 51
  /\ factors = <<3, 17>>
  /\ n = 17

\* C3: for n >= 1 the returned sequence is non-decreasing, the value appended
\* after the loop being no smaller than any factor recorded in the loop.
C3_NonDecreasing == (pc = "return" /\ num >= 1) => NonDecreasing(factors)

C3_Witness ==
  /\ pc = "return"
  /\ num >= 1
  /\ Len(factors) = 3
  /\ factors[1] < factors[2]
  /\ factors[2] < factors[3]
  /\ factors[3] = n

\* C4: prime_factors(1) is the empty sequence; the loop body is never entered
\* and nothing is appended after the loop.
C4_OneIsEmpty ==
  (InFunction /\ num = 1) => (factors = <<>> /\ n = 1 /\ divisor = 2)

C4_Witness == pc = "return" /\ num = 1 /\ factors = <<>>

\* C5: for n >= 1 every prime occurs in the returned sequence exactly as often
\* as it divides n; the result is the ascending list of prime factors with
\* multiplicity.
C5_Multiplicity ==
  (pc = "return" /\ num >= 1) =>
    /\ factors = ReferenceFactors(num)
    /\ \A p \in 2..num :
         Occurrences(p, factors) =
           IF num % p = 0 /\ IsPrime(p) THEN Multiplicity(p, num) ELSE 0

C5_Witness == pc = "return" /\ num = 100 /\ factors = <<2, 2, 5, 5>>

\* C6: for n >= 1 prime_factors terminates: every loop step strictly
\* decreases the remaining value or strictly increases the candidate, the loop
\* is left with the candidate's square above the remaining value, and the
\* function returns.
C6_Terminates ==
  /\ [][(pc = "while" /\ pc' = "while" /\ num >= 1)
          => (n' < n \/ divisor' > divisor)]_vars
  /\ []((pc = "if" /\ num >= 1) => divisor * divisor > n)
  /\ (pc = "while" /\ num >= 1) ~> (pc = "return")

C6_Witness ==
  /\ pc = "return"
  /\ num >= 1
  /\ divisor > 3
  /\ Len(factors) >= 2

\* C7: the factor sequence is printed at most once, and only after the input
\* was converted and prime_factors returned; with an input that is not an
\* integer the program ends with the error, prime_factors is never entered
\* and nothing is printed.
C7_PrintOnce ==
  /\ Len(out) <= 1
  /\ out # <<>> =>
       /\ pc = "exit"
       /\ IsIntLiteral(text)
       /\ num = IntOf(text)
       /\ out = <<ListStr(factors)>>
  /\ Returned => IsIntLiteral(text)
  /\ ~IsIntLiteral(text) => (pc \in {"input", "error"} /\ out = <<>>)

C7_Witness ==
  /\ pc = "exit"
  /\ num = 12
  /\ out = << <<"[", "2", ",", " ", "2", ",", " ", "3", "]">> >>

\* C8 as claimed: called with n = 0, prime_factors never returns.
C8_ZeroNeverReturns == ~(num = 0 /\ Returned)

\* C8 amended: called with n = 0, the loop condition is false at once, the
\* loop body is not run, nothing is appended and the call returns the empty
\* sequence.
C8_ZeroReturnsEmpty ==
  /\ []((InFunction /\ num = 0) => (factors = <<>> /\ n = 0 /\ divisor = 2))
  /\ (pc = "while" /\ num = 0) ~> (pc = "return" /\ factors = <<>>)

C8_Witness == pc = "return" /\ num = 0 /\ factors = <<>> /\ divisor = 2

\* C9 as claimed: called with a negative n, the loop body is not run and the
\* returned sequence is [n].
C9_NegativeAppended ==
  (pc = "return" /\ num < 0) => (divisor = 2 /\ factors = <<num>>)

\* C9 amended: called with a negative n, the loop condition is false at once,
\* the loop body is not run, nothing is appended and the returned sequence is
\* empty.
C9_NegativeReturnsEmpty ==
  (InFunction /\ num < 0) => (factors = <<>> /\ n = num /\ divisor = 2)

C9_Witness == pc = "return" /\ num < 0 /\ factors = <<>> /\ n = num

\* C10: for n >= 1, before and after every iteration of the loop the recorded
\* factors times the remaining value is the original n, the remaining value
\* is >= 1, the candidate is >= 2 and nothing in 2..candidate-1 divides the
\* remaining value; a step that records a factor keeps the candidate, a step
\* that advances the candidate keeps the factors and the remaining value.
C10_LoopInvariant ==
  /\ []((pc \in {"while", "if"} /\ num >= 1) =>
          /\ Product(factors) * n = num
          /\ n >= 1
          /\ divisor >= 2
          /\ \A d \in 2..(divisor - 1) : n % d # 0)
  /\ [][(pc = "while" /\ pc' = "while" /\ num >= 1) =>
          /\ factors' # factors => divisor' = divisor
          /\ divisor' # divisor => (factors' = factors /\ n' = n)]_vars

C10_Witness ==
  /\ pc = "while"
  /\ num >= 1
  /\ divisor > 2
  /\ factors # <<>>
  /\ WhileCond(divisor, n)

====
